---- MODULE Spec2Model ----
(***************************************************************************)
(* The AO3 -> Discord notifier: one polling run after another.  A run      *)
(* loads the watermark (state.json), fetches the listing with retries,     *)
(* extracts the works, computes the new works since the watermark,         *)
(* optionally fetches a chapter label per work through a pool of two        *)
(* workers, posts to the Discord webhook and saves the watermark.          *)
(*                                                                         *)
(* The repository holds three variants of the program; `variant` says      *)
(* which one runs:  "index"    = src/index.js                               *)
(*                  "part_000" = src/unnamed/part_000                       *)
(*                  "part_001" = src/unnamed/part_001                       *)
(*                                                                         *)
(* A work is modelled by its id (title and author do not influence control *)
(* flow).  A listing page is the sequence of its candidate blocks, each    *)
(* the work id its link carries, or NoLink for a block without a usable    *)
(* /works/<digits> link.                                                   *)
(*                                                                         *)
(* Actions are the stretches of code between two awaits.  Locals that are  *)
(* dead are not kept: the listing call's attempt log ends with the call,   *)
(* main keeps `newest` and the new works but not the whole snapshot, and   *)
(* mapLimit's pool ends when it returns or when the process exits.         *)
(***************************************************************************)
EXTENDS Integers, Sequences, FiniteSets, TLC

\* ---------------------------------------------------------------- bounds
\* Work ids are 1..MaxWorkId.
MaxWorkId == 4
\* A listing page holds at most MaxBlocks candidate blocks.
MaxBlocks == 4

WorkIds == 1..MaxWorkId

Variants == {"index", "part_000", "part_001"}

\* ------------------------------------------------------- program constants
\* loadState's fallback { lastWorkId: null }; also the falsy value of the test
\* !state.lastWorkId.
NoId == 0
\* A candidate block whose link is missing or does not match /works/(\d+).
NoLink == 0

\* Mutant of DISCORD_BATCH_THRESHOLD: merging starts one entry later.
DISCORD_BATCH_THRESHOLD_high == 2 + 1
DISCORD_BATCH_THRESHOLD == 2
\* Mutant of DETAILS_THRESHOLD: enrichment reaches one entry further.
DETAILS_THRESHOLD_high == 3 + 1
DETAILS_THRESHOLD == 3
\* Mutant of MAX_AO3_ATTEMPTS: one attempt fewer.
MAX_AO3_ATTEMPTS_short == 4 - 1
MAX_AO3_ATTEMPTS == 4
MAX_CONCURRENCY == 2
\* maxAttempts of fetchHtml in part_001.
maxAttempts_part_001 == 5
\* part_000's fetchHtml is a single fetch.
maxAttempts_part_000 == 1
\* maxAttempts of postToDiscord in index.js.
maxAttempts == 5
\* the margin added to every rate-limit wait, in ms.
SafetyMarginMs == 200
\* the wait, in ms, when the 429 body carries no finite retry_after.
DefaultWaitMs == 1000

RETRYABLE_HTTP == {429, 500, 502, 503, 504, 520, 521, 522, 523, 524, 525}

\* fetch() rejected: the per-attempt timeout aborted it, or a transport error.
Rejected == 0
\* The responses an AO3 request can meet in the model: rejected, 200, a
\* non-retryable status, a retryable one.
Ao3Outcomes == {Rejected, 200, 404, 503}

\* res.ok
Ok(status) == status >= 200 /\ status <= 299

\* ------------------------------------------------------------------ state
VARIABLES
    variant,     \* which program of the repository runs
    lastWorkId,  \* state.json: the persisted watermark, NoId when absent
    pc,          \* where main is: idle, fetch, body, fetched, enrich, post, done, failed
    state,       \* main's `state`: the watermark loaded at the start of the run
    saves,       \* number of saveState calls of this run
    fetchLog,    \* listing fetchHtml call: the outcome of each attempt so far
    html,        \* the page the listing fetchHtml call resolved with
    newest,      \* main's `newest`: works[0].id, NoId before it is set
    ordered,     \* the new works, oldest first
    cursor,      \* mapLimit's i: how many items were handed out
    workers,     \* mapLimit's workers: [st, idx, attempt, chapter]
    results,     \* mapLimit's results array; <<>> is an empty slot
    queue,       \* the messages main posts, in posting order
    cur,         \* index in queue of the message postToDiscord is posting
    postI,       \* postToDiscord's loop counter i
    sends,       \* number of POST requests made for the message posted latest
    postRes,     \* the latest webhook response: <<status, retry_after>>
    waitMs,      \* the length of postToDiscord's latest sleep
    delivered,   \* the messages the webhook accepted, in order
    error,       \* the error that ended the run: <<kind, status>>
    failedIn,    \* the pc at which the run failed
    source,      \* the listing the site serves, newest work first
    published,   \* how many works the site has published so far
    notified,    \* the work ids of the lines the webhook accepted, over all runs
    pristine,    \* no run has failed and no work was withdrawn so far
    initWm,      \* the first watermark ever written, NoId before
    aborted      \* the previous run, when it failed between two single
                 \* messages: <<its watermark, its delta, messages delivered>>

vars == <<variant, lastWorkId, pc, state, saves, fetchLog, html, newest, ordered,
          cursor, workers, results, queue, cur, postI, sends,
          postRes, waitMs, delivered, error, failedIn,
          source, published, notified, pristine, initWm, aborted>>

\* ---------------------------------------------------------- pure functions
Pages == UNION {[1..n -> {NoLink} \cup WorkIds] : n \in 0..MaxBlocks}

\* index.js extractWorks: every li.work block with a heading link to
\* /works/<digits> is pushed, in page order.
extractWorks(page) == SelectSeq(page, LAMBDA b : b # NoLink)

RECURSIVE DedupFrom(_, _, _, _)
DedupFrom(page, k, seen, ids) ==
    IF k > Len(page) THEN ids
    ELSE IF page[k] # NoLink /\ page[k] \notin seen
         THEN DedupFrom(page, k + 1, seen \cup {page[k]}, Append(ids, page[k]))
         ELSE DedupFrom(page, k + 1, seen, ids)

\* part_000 / part_001 extractWorkIds: first occurrence of every id.
extractWorkIds(page) == DedupFrom(page, 1, {}, <<>>)

Extract(v, page) == IF v = "index" THEN extractWorks(page) ELSE extractWorkIds(page)

RECURSIVE NewWorksFrom(_, _, _, _)
NewWorksFrom(ws, last, k, acc) ==
    IF k > Len(ws) THEN acc
    ELSE IF ws[k] = last THEN acc
    ELSE NewWorksFrom(ws, last, k + 1, Append(acc, ws[k]))

\* Mutant of NewWorks: the work that matches the watermark is pushed before the
\* loop breaks.
NewWorks_inclusive(ws, last) ==
    LET d == NewWorksFrom(ws, last, 1, <<>>)
    IN  IF Len(d) < Len(ws) THEN Append(d, last) ELSE d

\* Mutant of NewWorks: the loop never breaks, every work of the page is new.
NewWorks_noBreak(ws, last) == ws

\* main: for (const w of works) { if (w.id === state.lastWorkId) break; push }
NewWorks(ws, last) == NewWorksFrom(ws, last, 1, <<>>)

\* Mutant of Reverse: the new works stay newest-first.
Reverse_not(s) == s

\* Array.prototype.reverse
Reverse(s) == [k \in 1..Len(s) |-> s[Len(s) + 1 - k]]

\* ------------------------------------------------------------- fetchHtml
MaxAttempts(v) ==
    IF v = "index" THEN MAX_AO3_ATTEMPTS
    ELSE IF v = "part_001" THEN maxAttempts_part_001
    ELSE maxAttempts_part_000

\* index.js, the try block of one loop iteration: "return", "throw" or "sleep".
TryBlock(attempt, res) ==
    IF res = Rejected THEN "throw"
    ELSE IF Ok(res) THEN "return"
    ELSE IF res \notin RETRYABLE_HTTP \/ attempt = MAX_AO3_ATTEMPTS THEN "throw"
    ELSE "sleep"

\* Mutant of CatchBlock: the catch block backs off on the last attempt too.
CatchBlock_noRethrow(attempt) == "sleep"

\* index.js, the catch block: it receives whatever the try block threw.
CatchBlock(attempt) == IF attempt = MAX_AO3_ATTEMPTS THEN "throw" ELSE "sleep"

fetchHtml_index(attempt, res) ==
    IF TryBlock(attempt, res) = "throw" THEN CatchBlock(attempt) ELSE TryBlock(attempt, res)

fetchHtml_part_001(attempt, res) ==
    IF res = Rejected THEN "throw"
    ELSE IF Ok(res) THEN "return"
    ELSE IF res \notin RETRYABLE_HTTP \/ attempt = maxAttempts_part_001 THEN "throw"
    ELSE "sleep"

fetchHtml_part_000(attempt, res) ==
    IF res # Rejected /\ Ok(res) THEN "return" ELSE "throw"

\* One loop iteration of fetchHtml: what attempt number `attempt` does on `res`.
fetchHtmlStep(v, attempt, res) ==
    IF v = "index" THEN fetchHtml_index(attempt, res)
    ELSE IF v = "part_001" THEN fetchHtml_part_001(attempt, res)
    ELSE fetchHtml_part_000(attempt, res)

\* The error an attempt throws: the status error or the rejection itself.
ErrorOf(res) == IF res = Rejected THEN <<"rejected", 0>> ELSE <<"http", res>>
NoError == <<"none", 0>>

\* ------------------------------------------------------ fetchChapterOnly
\* The text of dd.chapters on a work page.
ChapterTexts == {"", "3", "3/10"}
\* chapter.includes("/") ? `Chapter ${chapter.split("/")[0]}` : ""
ChapterOf(text) == IF text = "3/10" THEN "Chapter 3" ELSE ""

\* --------------------------------------------------------- postToDiscord
\* retry_after of a 429 body; NaN when the body has none or is no JSON.
NaN == -1
RetryAfters == {NaN, 2}
DiscordResponses ==
    {<<Rejected, NaN>>, <<204, NaN>>, <<400, NaN>>} \cup {<<429, ra>> : ra \in RetryAfters}

\* Mutant of WaitMsOf: the retry_after of the response is ignored.
WaitMsOf_noHint(retryAfterSec) == DefaultWaitMs + SafetyMarginMs

\* (Number.isFinite(retryAfterSec) ? retryAfterSec * 1000 : 1000) + 200
WaitMsOf(retryAfterSec) ==
    (IF retryAfterSec # NaN THEN retryAfterSec * 1000 ELSE DefaultWaitMs) + SafetyMarginMs

\* Mutant of postToDiscord_index: every failed response is slept on and retried.
postToDiscord_index_retryAll(i, status) ==
    IF status = Rejected THEN "throw"
    ELSE IF Ok(status) THEN "return"
    ELSE IF i + 1 < maxAttempts THEN "sleep" ELSE "exhausted"

\* One loop iteration of postToDiscord with loop counter i (from 0).
postToDiscord_index(i, status) ==
    IF status = Rejected THEN "throw"
    ELSE IF Ok(status) THEN "return"
    ELSE IF status = 429 THEN (IF i + 1 < maxAttempts THEN "sleep" ELSE "exhausted")
    ELSE "throw"

postToDiscord_part(i, status) ==
    IF status # Rejected /\ Ok(status) THEN "return" ELSE "throw"

postToDiscordStep(v, i, status) ==
    IF v = "index" THEN postToDiscord_index(i, status) ELSE postToDiscord_part(i, status)

\* ------------------------------------------------------------- messages
\* buildLine: the work and its chapter label ("" when it has none).
buildLine(w, chapter) == <<w, chapter>>

\* chaptersById after `for (const [id, ch] of pairs) chaptersById.set(id, ch)`:
\* the last pair of an id wins; an id without a pair has no entry ("").
RECURSIVE SetAll(_, _, _)
SetAll(map, pairs, k) ==
    IF k > Len(pairs) THEN map
    ELSE SetAll([map EXCEPT ![pairs[k][1]] = pairs[k][2]], pairs, k + 1)

ChaptersById(pairs) == SetAll([id \in WorkIds |-> ""], pairs, 1)

Lines(ord, pairs) ==
    [k \in 1..Len(ord) |-> buildLine(ord[k], ChaptersById(pairs)[ord[k]])]

\* Mutant of Messages_index: the single messages go out newest first.
Messages_index_newestFirst(lines) ==
    IF Len(lines) > DISCORD_BATCH_THRESHOLD
    THEN << [kind |-> "batch", lines |-> lines] >>
    ELSE [k \in 1..Len(lines) |-> [kind |-> "line", lines |-> <<lines[Len(lines) + 1 - k]>>]]

\* index.js: one merged message above the threshold, else one message per line.
Messages_index(lines) ==
    IF Len(lines) > DISCORD_BATCH_THRESHOLD
    THEN << [kind |-> "batch", lines |-> lines] >>
    ELSE [k \in 1..Len(lines) |-> [kind |-> "line", lines |-> <<lines[k]>>]]

\* part_000 / part_001: one message per new id.
Messages_part(ord) ==
    [k \in 1..Len(ord) |-> [kind |-> "line", lines |-> <<buildLine(ord[k], "")>>]]

\* part_001's zero-works alert.
AlertMessage == [kind |-> "alert", lines |-> <<>>]

\* ---------------------------------------------------------------- actions
runVars == <<fetchLog, html, newest, ordered>>
poolVars == <<cursor, workers, results>>
postVars == <<queue, cur, postI, sends, postRes, waitMs, delivered>>

feedVars == <<source, published, notified, pristine, initWm, aborted>>

NoResponse == <<Rejected, NaN>>

\* No process has run yet and state.json does not exist.
ProgramInit ==
    /\ variant \in Variants
    /\ lastWorkId = NoId
    /\ pc = "idle"
    /\ state = NoId
    /\ saves = 0
    /\ fetchLog = <<>>
    /\ html = <<>>
    /\ newest = NoId
    /\ ordered = <<>>
    /\ cursor = 0
    /\ workers = <<>>
    /\ results = <<>>
    /\ queue = <<>>
    /\ cur = 0
    /\ postI = 0
    /\ sends = 0
    /\ postRes = NoResponse
    /\ waitMs = 0
    /\ delivered = <<>>
    /\ error = NoError
    /\ failedIn = "none"

\* The program alone, on any page: the history of the listing is not followed.
Init ==
    /\ ProgramInit
    /\ source = <<>>
    /\ published = 0
    /\ notified = <<>>
    /\ pristine = FALSE
    /\ initWm = NoId
    /\ aborted = <<>>

\* A new process: main starts, loadState reads state.json, the listing fetchHtml
\* call begins.
StartRun ==
    /\ pc \in {"idle", "done", "failed"}
    /\ pc' = "fetch"
    /\ state' = lastWorkId
    /\ saves' = 0
    /\ fetchLog' = <<>>
    /\ html' = <<>>
    /\ newest' = NoId
    /\ ordered' = <<>>
    /\ cursor' = 0
    /\ workers' = <<>>
    /\ results' = <<>>
    /\ queue' = <<>>
    /\ cur' = 0
    /\ postI' = 0
    /\ sends' = 0
    /\ postRes' = NoResponse
    /\ waitMs' = 0
    /\ delivered' = <<>>
    /\ error' = NoError
    /\ failedIn' = "none"
    /\ UNCHANGED <<variant, lastWorkId>>

\* The run ends with error e: main().catch logs it and exits 1.
Fail(e) ==
    /\ pc' = "failed"
    /\ error' = e
    /\ failedIn' = pc

\* One iteration of the listing fetchHtml loop: the request, its outcome, and
\* what follows: the read of the body (await res.text()), the throw, or the
\* backoff sleep.  Outcome 200 stands for a 2xx response whose body is read in
\* full; a read that the timeout aborts is outcome Rejected.
ListingAttempt ==
    /\ pc = "fetch"
    /\ IF Len(fetchLog) >= MaxAttempts(variant)
       THEN \* the throw after the loop
            /\ Fail(<<"exhausted", 0>>)
            /\ UNCHANGED <<fetchLog, html>>
       ELSE \E res \in Ao3Outcomes :
            LET attempt == Len(fetchLog) + 1
                step == fetchHtmlStep(variant, attempt, res)
            IN  /\ fetchLog' = Append(fetchLog, res)
                /\ IF step = "return"
                   THEN /\ pc' = "body"
                        /\ UNCHANGED <<html, error, failedIn>>
                   ELSE IF step = "throw"
                   THEN /\ Fail(ErrorOf(res))
                        /\ UNCHANGED html
                   ELSE /\ UNCHANGED <<pc, html, error, failedIn>>
    /\ UNCHANGED <<variant, lastWorkId, state, saves, newest, ordered>>
    /\ UNCHANGED poolVars
    /\ UNCHANGED postVars

\* Mutant of IsFirstRun: the first-run branch is never taken.
IsFirstRun_never(st) == FALSE

\* if (!state.lastWorkId): no watermark was loaded.
IsFirstRun(st) == st = NoId

\* res.text() resolves with the page and fetchHtml returns it; the call and its
\* attempt counter are over.
ListingBody ==
    /\ pc = "body"
    /\ \E page \in Pages : html' = page
    /\ fetchLog' = <<>>
    /\ pc' = "fetched"
    /\ UNCHANGED <<variant, lastWorkId, state, saves, newest, ordered, error, failedIn>>
    /\ UNCHANGED poolVars
    /\ UNCHANGED postVars

\* Mutant of saveState: stores the oldest new work instead of the id passed in.
saveState_firstNew(id) ==
    /\ lastWorkId' = (IF ordered # <<>> THEN ordered[1] ELSE id)
    /\ saves' = saves + 1

\* saveState({ lastWorkId: id })
saveState(id) ==
    /\ lastWorkId' = id
    /\ saves' = saves + 1

\* main returns normally.
Return ==
    /\ pc' = "done"
    /\ UNCHANGED <<error, failedIn>>

\* Mutant of StartPosting: the watermark is committed before the delivery.
StartPosting_commitFirst(q) ==
    /\ queue' = q
    /\ cur' = 1
    /\ postI' = 0
    /\ pc' = "post"
    /\ lastWorkId' = newest'
    /\ saves' = saves + 1
    /\ UNCHANGED <<sends, postRes, waitMs, delivered, error, failedIn>>

\* Mutant of StartPosting: the id of the newest work to post is saved as the
\* watermark before the first message goes out.
StartPosting_saveAhead(q) ==
    /\ queue' = q
    /\ cur' = 1
    /\ postI' = 0
    /\ pc' = "post"
    /\ lastWorkId' = (IF q[Len(q)].lines = <<>> THEN lastWorkId
                      ELSE q[Len(q)].lines[Len(q[Len(q)].lines)][1])
    /\ saves' = saves + 1
    /\ UNCHANGED <<sends, postRes, waitMs, delivered, error, failedIn>>

\* main starts posting the messages q (non-empty): the first POST is in flight.
\* Nothing is saved before the messages are delivered.
StartPosting(q) ==
    /\ queue' = q
    /\ cur' = 1
    /\ postI' = 0
    /\ pc' = "post"
    /\ UNCHANGED <<lastWorkId, saves>>
    /\ UNCHANGED <<sends, postRes, waitMs, delivered, error, failedIn>>

\* mapLimit(items, MAX_CONCURRENCY, fn): min(limit, n) workers are created one
\* after the other; each runs to its first await, so worker k takes item k and
\* has its first request in flight.
StartPool(items) ==
    LET n == IF MAX_CONCURRENCY < Len(items) THEN MAX_CONCURRENCY ELSE Len(items)
    IN  /\ results' = [k \in 1..Len(items) |-> <<>>]
        /\ workers' = [k \in 1..n |-> [st |-> "fetch", idx |-> k, attempt |-> 1, chapter |-> ""]]
        /\ cursor' = n
        /\ pc' = "enrich"
        /\ UNCHANGED <<error, failedIn>>

\* main resumes with the listing page: extract, first-run and no-news branches,
\* the new works, and the start of enrichment or of posting.
MainAfterFetch ==
    /\ pc = "fetched"
    /\ LET ws == Extract(variant, html)
           newWorks == NewWorks(ws, state)
           ord == Reverse(newWorks)
       IN  /\ newest' = IF Len(ws) = 0 THEN NoId ELSE ws[1]
           /\ html' = <<>>
           /\ UNCHANGED fetchLog
           /\ IF Len(ws) = 0
              THEN /\ ordered' = <<>>
                   /\ UNCHANGED poolVars
                   /\ IF variant = "part_001"
                      THEN StartPosting(<<AlertMessage>>)
                      ELSE Return /\ UNCHANGED postVars /\ UNCHANGED <<lastWorkId, saves>>
              ELSE IF IsFirstRun(state)
              THEN /\ ordered' = <<>>
                   /\ saveState(ws[1])
                   /\ Return
                   /\ UNCHANGED poolVars
                   /\ UNCHANGED postVars
              ELSE IF Len(newWorks) = 0
              THEN /\ ordered' = <<>>
                   /\ IF variant = "part_000"
                      THEN UNCHANGED <<lastWorkId, saves>>
                      ELSE saveState(ws[1])
                   /\ Return
                   /\ UNCHANGED poolVars
                   /\ UNCHANGED postVars
              ELSE /\ ordered' = ord
                   /\ IF variant # "index"
                      THEN StartPosting(Messages_part(ord)) /\ UNCHANGED poolVars
                      ELSE IF Len(ord) <= DETAILS_THRESHOLD
                      THEN StartPool(ord) /\ UNCHANGED postVars /\ UNCHANGED <<lastWorkId, saves>>
                      ELSE StartPosting(Messages_index(Lines(ord, <<>>))) /\ UNCHANGED poolVars
    /\ UNCHANGED <<variant, state>>

\* Worker w's request gets its outcome: fetchHtml returns the work page (the
\* chapter is parsed and the 300 ms sleep starts), backs off, or throws, which
\* rejects mapLimit's Promise.all and ends the run; the process exits and the
\* pool is gone.
WorkerResponse(w) ==
    /\ pc = "enrich"
    /\ workers[w].st = "fetch"
    /\ \E res \in Ao3Outcomes :
       LET step == fetchHtmlStep(variant, workers[w].attempt, res)
       IN  IF step = "return"
           THEN /\ \E text \in ChapterTexts :
                     workers' = [workers EXCEPT ![w].st = "sleep", ![w].chapter = ChapterOf(text)]
                /\ UNCHANGED <<pc, error, failedIn, cursor, results>>
           ELSE IF step = "throw"
           THEN /\ Fail(ErrorOf(res))
                /\ workers' = <<>>
                /\ cursor' = 0
                /\ results' = <<>>
           ELSE /\ workers' = [workers EXCEPT ![w].st = "backoff"]
                /\ UNCHANGED <<pc, error, failedIn, cursor, results>>
    /\ UNCHANGED <<variant, lastWorkId, state, saves>>
    /\ UNCHANGED runVars
    /\ UNCHANGED postVars

\* Worker w's backoff sleep ends: the next attempt's request goes out.
WorkerBackoffDone(w) ==
    /\ pc = "enrich"
    /\ workers[w].st = "backoff"
    /\ workers' = [workers EXCEPT ![w].st = "fetch", ![w].attempt = @ + 1]
    /\ UNCHANGED <<variant, lastWorkId, pc, state, saves, cursor, results, error, failedIn>>
    /\ UNCHANGED runVars
    /\ UNCHANGED postVars

\* Worker w's 300 ms sleep ends: fn returns [id, chapter], the worker stores it
\* in results[idx] and takes the next item, or leaves its loop.
WorkerSleepDone(w) ==
    /\ pc = "enrich"
    /\ workers[w].st = "sleep"
    /\ results' = [results EXCEPT ![workers[w].idx] = <<ordered[workers[w].idx], workers[w].chapter>>]
    /\ IF cursor < Len(ordered)
       THEN /\ workers' = [workers EXCEPT ![w] =
                              [st |-> "fetch", idx |-> cursor + 1, attempt |-> 1, chapter |-> ""]]
            /\ cursor' = cursor + 1
       ELSE /\ workers' = [workers EXCEPT ![w].st = "done"]
            /\ UNCHANGED cursor
    /\ UNCHANGED <<variant, lastWorkId, pc, state, saves, error, failedIn>>
    /\ UNCHANGED runVars
    /\ UNCHANGED postVars

\* Promise.all resolved: main fills chaptersById, builds the lines and starts
\* posting.
MainAfterEnrich ==
    /\ pc = "enrich"
    /\ \A w \in DOMAIN workers : workers[w].st = "done"
    /\ StartPosting(Messages_index(Lines(ordered, results)))
    /\ workers' = <<>>
    /\ cursor' = 0
    /\ results' = <<>>
    /\ UNCHANGED <<variant, state>>
    /\ UNCHANGED runVars

\* One iteration of postToDiscord's loop for queue[cur]: the POST, the response,
\* and what follows: the return to main (which posts the next message, or
\* finishes the run), the rate-limit sleep, or the throw.
PostAttempt ==
    /\ pc = "post"
    /\ \E r \in DiscordResponses :
       LET step == postToDiscordStep(variant, postI, r[1])
       IN  /\ sends' = postI + 1
           /\ postRes' = r
           /\ IF step = "return"
              THEN /\ delivered' = Append(delivered, queue[cur])
                   /\ postI' = 0
                   /\ waitMs' = 0
                   /\ UNCHANGED <<error, failedIn>>
                   /\ IF cur < Len(queue)
                      THEN /\ cur' = cur + 1
                           /\ UNCHANGED <<pc, lastWorkId, saves>>
                      ELSE /\ UNCHANGED cur
                           /\ pc' = "done"
                           /\ IF queue[cur].kind = "alert"
                              THEN UNCHANGED <<lastWorkId, saves>>
                              ELSE saveState(newest)
              ELSE IF step = "sleep"
              THEN /\ waitMs' = WaitMsOf(r[2])
                   /\ postI' = postI + 1
                   /\ UNCHANGED <<delivered, cur, pc, lastWorkId, saves, error, failedIn>>
              ELSE IF step = "exhausted"
              THEN /\ waitMs' = WaitMsOf(r[2])
                   /\ postI' = postI + 1
                   /\ Fail(<<"discord-exhausted", 0>>)
                   /\ UNCHANGED <<delivered, cur, lastWorkId, saves>>
              ELSE /\ Fail(IF r[1] = Rejected THEN <<"rejected", 0>> ELSE <<"discord", r[1]>>)
                   /\ UNCHANGED <<delivered, cur, postI, waitMs, lastWorkId, saves>>
    /\ UNCHANGED <<variant, state, queue>>
    /\ UNCHANGED runVars
    /\ UNCHANGED poolVars

Next ==
    \/ StartRun /\ UNCHANGED feedVars
    \/ ListingAttempt /\ UNCHANGED feedVars
    \/ ListingBody /\ UNCHANGED feedVars
    \/ MainAfterFetch /\ UNCHANGED feedVars
    \/ \E w \in 1..MAX_CONCURRENCY :
           w \in DOMAIN workers /\ WorkerResponse(w) /\ UNCHANGED feedVars
    \/ \E w \in 1..MAX_CONCURRENCY :
           w \in DOMAIN workers /\ WorkerBackoffDone(w) /\ UNCHANGED feedVars
    \/ \E w \in 1..MAX_CONCURRENCY :
           w \in DOMAIN workers /\ WorkerSleepDone(w) /\ UNCHANGED feedVars
    \/ MainAfterEnrich /\ UNCHANGED feedVars
    \/ PostAttempt /\ UNCHANGED feedVars

Spec == Init /\ [][Next]_vars

\* ------------------------------------------------- index.js over a listing
\* The program of index.js run again and again over a listing that changes
\* between runs.  The site publishes works in the order of their ids, newest
\* first in the listing, and may withdraw a work; a run sees the listing as it
\* is when its page is read, so the changes are taken when a run has started
\* and has not read its page yet.  The site answers every request of a run
\* with a page at once; the webhook answers as it likes.

\* The page of the listing: its first MaxBlocks works.
Window(src) == SubSeq(src, 1, IF Len(src) < MaxBlocks THEN Len(src) ELSE MaxBlocks)

\* The work ids of the lines of a message.
IdsOf(msg) == [k \in 1..Len(msg.lines) |-> msg.lines[k][1]]

BeforeRead == pc = "fetch"

\* The site publishes a work: it is prepended to the listing.
Publish ==
    /\ BeforeRead
    /\ published < MaxWorkId
    /\ published' = published + 1
    /\ source' = <<published + 1>> \o source
    /\ UNCHANGED <<variant, lastWorkId, pc, state, saves, error, failedIn>>
    /\ UNCHANGED runVars
    /\ UNCHANGED poolVars
    /\ UNCHANGED postVars
    /\ UNCHANGED <<notified, pristine, initWm, aborted>>

\* A work leaves the listing (deleted, hidden or restricted by its author).
Withdraw ==
    /\ BeforeRead
    /\ \E k \in 1..Len(source) :
           source' = SubSeq(source, 1, k - 1) \o SubSeq(source, k + 1, Len(source))
    /\ pristine' = FALSE
    /\ notified' = <<>>
    /\ UNCHANGED <<variant, lastWorkId, pc, state, saves, error, failedIn>>
    /\ UNCHANGED runVars
    /\ UNCHANGED poolVars
    /\ UNCHANGED postVars
    /\ UNCHANGED <<published, initWm, aborted>>

\* What a step of a run adds to the history: the ids of a message the webhook
\* accepted (kept while the history is pristine), the first watermark written,
\* and the end of the pristine history when the run fails.
History ==
    /\ pristine' = (pristine /\ pc' # "failed")
    /\ notified' = IF ~pristine' THEN <<>>
                   ELSE IF Len(delivered') > Len(delivered)
                   THEN notified \o IdsOf(delivered'[Len(delivered')])
                   ELSE notified
    /\ initWm' = IF initWm = NoId THEN lastWorkId' ELSE initWm
    /\ UNCHANGED <<source, published, aborted>>

\* The run that just ended, when it failed in one-message-per-entry mode after
\* the webhook had accepted at least one message.
AbortedRun ==
    IF /\ pc = "failed"
       /\ failedIn = "post"
       /\ Len(delivered) >= 1
       /\ Len(ordered) <= DISCORD_BATCH_THRESHOLD
    THEN <<state, ordered, Len(delivered)>>
    ELSE <<>>

FeedInit ==
    /\ ProgramInit
    /\ variant = "index"
    /\ source = <<>>
    /\ published = 0
    /\ notified = <<>>
    /\ pristine = TRUE
    /\ initWm = NoId
    /\ aborted = <<>>

FeedStartRun ==
    /\ StartRun
    /\ aborted' = AbortedRun
    /\ UNCHANGED <<source, published, notified, pristine, initWm>>

FeedListingAttempt == ListingAttempt /\ pc' = "body" /\ History

FeedListingBody == ListingBody /\ html' = Window(source) /\ History

FeedMainAfterFetch == MainAfterFetch /\ History

FeedWorkerResponse(w) ==
    WorkerResponse(w) /\ pc' = "enrich" /\ workers'[w].st = "sleep" /\ History

FeedWorkerSleepDone(w) == WorkerSleepDone(w) /\ History

FeedMainAfterEnrich == MainAfterEnrich /\ History

FeedPostAttempt == PostAttempt /\ History

FeedNext ==
    \/ Publish
    \/ Withdraw
    \/ FeedStartRun
    \/ FeedListingAttempt
    \/ FeedListingBody
    \/ FeedMainAfterFetch
    \/ \E w \in 1..MAX_CONCURRENCY : w \in DOMAIN workers /\ FeedWorkerResponse(w)
    \/ \E w \in 1..MAX_CONCURRENCY : w \in DOMAIN workers /\ FeedWorkerSleepDone(w)
    \/ FeedMainAfterEnrich
    \/ FeedPostAttempt

SpecFeed == FeedInit /\ [][FeedNext]_vars

\* ================================================================= claims
\* A step of main that resumes with the listing page.
Snapshot == Extract(variant, html)

\* The first position of w in S, Len(S) + 1 when w does not occur.
FirstAt(S, w) ==
    IF \E k \in 1..Len(S) : S[k] = w
    THEN CHOOSE k \in 1..Len(S) : S[k] = w /\ \A j \in 1..(k - 1) : S[j] # w
    ELSE Len(S) + 1

\* C1: with a watermark set, the delta main computes from snapshot S is the
\* entries of S before the first occurrence of the watermark, oldest first; all
\* of S reversed when the watermark does not occur in S.
C1_DeltaIsReversedPrefix ==
    [][(pc = "fetched" /\ state # NoId /\ Len(Snapshot) > 0) =>
         LET S == Snapshot
             n == FirstAt(S, state) - 1
         IN  /\ Len(ordered') = n
             /\ \A k \in 1..n : ordered'[k] = S[n + 1 - k]]_vars

\* C1 witness: watermark 1, snapshot 4, 3, 2, 1: the delta is <<2, 3, 4>>.
C1_Witness ==
    /\ pc \in {"enrich", "post", "done"}
    /\ state = 1
    /\ ordered = <<2, 3, 4>>
    /\ newest = 4

\* C2 as stated: a run that starts without a watermark and gets the listing
\* persists the head id and sends nothing, whatever the snapshot holds.
C2_Original ==
    (state = NoId /\ pc \in {"enrich", "post", "done"}) =>
        /\ pc = "done"
        /\ saves = 1
        /\ lastWorkId = newest
        /\ lastWorkId # NoId
        /\ queue = <<>>
        /\ delivered = <<>>

\* C2 amended: a run that starts without a watermark and gets a non-empty
\* snapshot persists its head id, sends nothing and ends; with an empty snapshot
\* it persists nothing.
C2_FirstRunPersistsHead ==
    [][(pc = "fetched" /\ state = NoId) =>
         IF Len(Snapshot) > 0
         THEN /\ pc' = "done"
              /\ lastWorkId' = Snapshot[1]
              /\ saves' = 1
              /\ queue' = <<>>
              /\ delivered' = <<>>
         ELSE /\ lastWorkId' = lastWorkId
              /\ saves' = 0]_vars

\* C2 witness: a first run ended with the head id persisted and nothing sent.
C2_Witness ==
    /\ pc = "done"
    /\ state = NoId
    /\ lastWorkId = 2
    /\ newest = 2
    /\ saves = 1
    /\ delivered = <<>>

NonRetryable(res) == res # Rejected /\ ~Ok(res) /\ res \notin RETRYABLE_HTTP

\* C3 as stated: a non-retryable status ends the listing fetchHtml call at once:
\* it is the last request of the call, and the call has failed.
C3_FatalStatusEndsFetch ==
    \A k \in 1..Len(fetchLog) :
        NonRetryable(fetchLog[k]) => (k = Len(fetchLog) /\ pc = "failed")

\* C4: a run that ends in an error has written no watermark: state.json holds
\* what the run loaded.
C4_FailedRunWritesNothing ==
    pc = "failed" => (saves = 0 /\ lastWorkId = state)

\* C4 witness: a run that failed in delivery after a first message was accepted.
C4_Witness ==
    /\ pc = "failed"
    /\ failedIn = "post"
    /\ state # NoId
    /\ Len(delivered) = 1
    /\ newest # state

RetryableFailure(res) == res = Rejected \/ res \in RETRYABLE_HTTP

\* C5: in index.js, while every attempt so far failed with a retryable status or
\* a timeout and fewer than 4 attempts were made, the call is still trying; a
\* 2xx response on the next attempt is not followed by another attempt: its
\* body is read, and fetchHtml returns that page with no error.
C5_RetryThenSuccess ==
    [][/\ (/\ variant = "index"
           /\ pc \in {"fetch", "failed"}
           /\ failedIn \in {"none", "fetch"}
           /\ Len(fetchLog) < 4
           /\ \A k \in 1..Len(fetchLog) : RetryableFailure(fetchLog[k])) =>
            /\ pc = "fetch"
            /\ (Len(fetchLog') = Len(fetchLog) + 1 /\ Ok(fetchLog'[Len(fetchLog')])) =>
                   (pc' = "body" /\ error' = NoError)
       /\ (variant = "index" /\ pc = "body" /\ vars' # vars) =>
            /\ pc' = "fetched"
            /\ html' \in Pages
            /\ error' = NoError
            /\ failedIn' = "none"]_vars

\* C5 witness: 503, 503, 503, 200: attempt 4 was answered 2xx and the call is
\* returning its body.
C5_Witness ==
    /\ variant = "index"
    /\ pc = "body"
    /\ fetchLog = <<503, 503, 503, 200>>
    /\ error = NoError

\* The run reached the dispatch of its new works.
Dispatching ==
    /\ Len(ordered) > 0
    /\ pc \in {"post", "done"} \/ (pc = "failed" /\ failedIn = "post")

\* C6: a delta of 1 or 2 entries is posted as one message per entry, in the
\* order of the delta; the messages accepted so far are the first ones of that
\* order, the message being posted is the next one, and a run that completes
\* has had all of them accepted.
C6_OneMessagePerEntry ==
    (Dispatching /\ Len(ordered) <= 2) =>
        /\ Len(queue) = Len(ordered)
        /\ \A k \in 1..Len(queue) :
              /\ queue[k].kind = "line"
              /\ Len(queue[k].lines) = 1
              /\ queue[k].lines[1][1] = ordered[k]
        /\ Len(delivered) <= Len(queue)
        /\ \A k \in 1..Len(delivered) : delivered[k] = queue[k]
        /\ pc # "done" => cur = Len(delivered) + 1
        /\ pc = "done" => delivered = queue

\* C6 witness: index.js delivered works 1 and 2, one message each, oldest first.
C6_Witness ==
    /\ variant = "index"
    /\ pc = "done"
    /\ ordered = <<1, 2>>
    /\ Len(delivered) = 2
    /\ delivered[1].lines[1][1] = 1
    /\ delivered[2].lines[1][1] = 2

\* ceil(n / d)
CeilDiv(n, d) == (n + d - 1) \div d

\* No id occurs twice in s.
Distinct(s) == \A i, j \in 1..Len(s) : s[i] = s[j] => i = j

\* C7 as stated, for a line cap `cap`: a delta (of distinct works) above the
\* batch threshold is posted as ceil(n / cap) messages of at most cap lines
\* each, the lines in the order of the delta.
ChunkedBy(cap) ==
    (variant = "index" /\ Dispatching /\ Len(ordered) > 2 /\ Distinct(ordered)) =>
        /\ Len(queue) = CeilDiv(Len(ordered), cap)
        /\ \A k \in 1..Len(queue) :
              /\ Len(queue[k].lines) <= cap
              /\ \A j \in 1..Len(queue[k].lines) :
                    queue[k].lines[j][1] = ordered[(k - 1) * cap + j]

\* C7 as stated holds for some line cap smaller than the largest delta of
\* distinct works (MaxWorkId - 1: every id but the watermark).  The program has
\* no line cap; a cap no delta can exceed would make the claim say nothing about
\* splitting.
C7_Original == \E cap \in 1..(MaxWorkId - 2) : ChunkedBy(cap)

\* C7 amended: index.js posts a delta above the batch threshold as exactly one
\* message holding all its lines in the order of the delta, whatever its size.
C7_SingleMergedMessage ==
    (variant = "index" /\ Dispatching /\ Len(ordered) > 2) =>
        /\ Len(queue) = 1
        /\ queue[1].kind = "batch"
        /\ Len(queue[1].lines) = Len(ordered)
        /\ \A j \in 1..Len(ordered) : queue[1].lines[j][1] = ordered[j]
        /\ Len(delivered) <= 1
        /\ pc = "done" => delivered = queue

\* C7 witness: the delta <<2, 3, 4>> was delivered as one message of 3 lines.
C7_Witness ==
    /\ variant = "index"
    /\ pc = "done"
    /\ ordered = <<2, 3, 4>>
    /\ Len(delivered) = 1
    /\ delivered[1].kind = "batch"
    /\ Len(delivered[1].lines) = 3

\* C8: in index.js every POST of postToDiscord is one of at most 5 for its
\* message; on a 429 the call sleeps longer than the retry_after of the response
\* and posts the same message again, or fails the run when it was the 5th POST;
\* on a success response the message is delivered and the call returns.
C8_RateLimitRetry ==
    [][(variant = "index" /\ pc = "post" /\ vars' # vars) =>
         /\ sends' = postI + 1
         /\ sends' <= 5
         /\ postRes'[1] = 429 =>
               /\ waitMs' > 0
               /\ postRes'[2] # NaN => waitMs' > postRes'[2] * 1000
               /\ delivered' = delivered
               /\ IF sends' < 5
                  THEN pc' = "post" /\ cur' = cur /\ queue' = queue /\ postI' = sends'
                  ELSE pc' = "failed" /\ error' = <<"discord-exhausted", 0>>
         /\ Ok(postRes'[1]) =>
               /\ delivered' = Append(delivered, queue[cur])
               /\ pc' \in {"post", "done"}]_vars

\* C8 witness: one 429, then the same message accepted: two POSTs for it.
C8_Witness ==
    /\ variant = "index"
    /\ pc \in {"post", "done"}
    /\ sends = 2
    /\ Ok(postRes[1])
    /\ Len(delivered) = 1

\* A webhook response that is neither a success nor a 429.
FatalStatus(status) == status # Rejected /\ ~Ok(status) /\ status # 429

\* C9: a webhook response that is neither a success nor a 429 fails the run at
\* once, with nothing delivered or saved by that step; a failed run posts,
\* delivers and saves nothing more: all that follows is the next run.
C9_FatalDeliveryFailure ==
    [][/\ (pc = "post" /\ FatalStatus(postRes'[1])) =>
             /\ pc' = "failed"
             /\ delivered' = delivered
             /\ lastWorkId' = state
             /\ saves' = 0
       /\ pc = "failed" =>
             /\ lastWorkId' = lastWorkId
             /\ \/ pc' = "failed" /\ delivered' = delivered /\ sends' = sends
                \/ pc' = "fetch" /\ delivered' = <<>> /\ sends' = 0]_vars

\* C9 witness: the first of two messages was answered 400: one POST, nothing
\* delivered, the second message never posted, the watermark as loaded.
C9_Witness ==
    /\ pc = "failed"
    /\ postRes[1] = 400
    /\ Len(queue) = 2
    /\ cur = 1
    /\ sends = 1
    /\ delivered = <<>>
    /\ state # NoId
    /\ lastWorkId = state

\* C10 as stated, of index.js and part_001: a run whose listing fetch succeeded
\* and whose snapshot is empty has delivered the alert, and has left the
\* watermark as loaded.
C10_EmptySnapshotAlerts ==
    (variant # "part_000" /\ pc = "done" /\ newest = NoId) =>
        /\ delivered = <<AlertMessage>>
        /\ lastWorkId = state

\* C11: whatever the listing page is (its blocks taken in document order, ids
\* possibly repeated), the extractor's result holds no id twice, holds exactly
\* the ids of the page, and lists them in the order of their first occurrence.
C11_ExtractorDedups ==
    pc = "fetched" =>
        LET out == Snapshot
        IN  /\ Distinct(out)
            /\ {out[k] : k \in 1..Len(out)} =
                   {html[k] : k \in 1..Len(html)} \ {NoLink}
            /\ \A i, j \in 1..Len(out) :
                   i < j => FirstAt(html, out[i]) < FirstAt(html, out[j])

\* C12: a run that loaded a watermark and whose snapshot's head is that
\* watermark ends with an empty delta and no message sent, having written the
\* watermark file once, with the value it already held.
C12_HeadIsWatermarkRepersists ==
    (pc = "done" /\ state # NoId /\ newest = state) =>
        /\ ordered = <<>>
        /\ sends = 0
        /\ delivered = <<>>
        /\ saves = 1
        /\ lastWorkId = state

\* The head of the snapshot of the run in progress: read from the page on the
\* step that resumes main with it, kept in `newest` afterwards.
HeadOfRun ==
    IF pc = "fetched"
    THEN (IF Len(Snapshot) > 0 THEN Snapshot[1] ELSE NoId)
    ELSE newest

\* C13: over any sequence of runs, a run writes the watermark at most once;
\* the watermark changes only by such a write; every write stores the head id
\* of the snapshot of the run that makes it; and an unset watermark stays unset
\* in every run whose snapshot is empty.
C13_OneWriteOfOwnHead ==
    [][/\ saves' \in {0, 1}
       /\ lastWorkId' # lastWorkId => saves' = saves + 1
       /\ saves' = saves + 1 => (HeadOfRun # NoId /\ lastWorkId' = HeadOfRun)
       /\ (lastWorkId = NoId /\ HeadOfRun = NoId) => lastWorkId' = NoId]_vars

\* C13 witness: the second run of index.js, started with watermark 1 over the
\* snapshot 3, 2, 1, has posted both new works and written its head, 3, once.
C13_Witness ==
    /\ variant = "index"
    /\ pc = "done"
    /\ state = 1
    /\ ordered = <<2, 3>>
    /\ Len(delivered) = 2
    /\ saves = 1
    /\ lastWorkId = 3

\* C15: the terminal failure of one delta entry's enrichment fetch does not
\* abort the run: no run ends in failure while enriching (the entry is posted
\* without a chapter, the others are enriched and posted, and the watermark is
\* committed as in any other run).
C15_EnrichFailureDegrades ==
    ~(pc = "failed" /\ failedIn = "enrich")

\* Every line of every message of the run carries no chapter.
NoChapterInQueue ==
    \A m \in 1..Len(queue) : \A l \in 1..Len(queue[m].lines) : queue[m].lines[l][2] = ""

\* C16 as stated: enrichment runs only for a delta of fewer than 3 entries; a
\* delta of 3 or more is never enriched and its lines carry no chapter.
C16_Original ==
    variant = "index" =>
        /\ pc = "enrich" => Len(ordered) < 3
        /\ (Len(ordered) >= 3 /\ Dispatching) => NoChapterInQueue

\* C16: enrichment runs only for a delta of at most 3 entries (ordered.length
\* <= DETAILS_THRESHOLD); a delta of more than 3 is never enriched, its
\* messages are built straight after the delta and no line carries a chapter.
C16_EnrichUpToThreshold ==
    variant = "index" =>
        /\ pc = "enrich" => Len(ordered) \in 1..3
        /\ (Len(ordered) > 3 /\ Dispatching) => NoChapterInQueue

\* C16 witness: a delta of 4 entries was posted, in one merged message of 4
\* lines, none with a chapter.
C16_Witness ==
    /\ variant = "index"
    /\ pc = "done"
    /\ Len(ordered) = 4
    /\ Len(queue) = 1
    /\ Len(queue[1].lines) = 4
    /\ NoChapterInQueue
    /\ delivered = queue

\* The attempt budget of a fetchHtml call, as the claim states it.
Budget(v) == IF v = "index" THEN 4 ELSE 5

\* C17: in index.js and part_001 a fetchHtml call makes at most 4,
\* respectively 5, requests whatever their outcomes are; the call is over once
\* the last of them is answered, so the throw after the loop is never reached;
\* and the error of a failed listing fetch is the failure of its last attempt.
C17_FetchWithinBudget ==
    variant # "part_000" =>
        /\ Len(fetchLog) <= Budget(variant)
        /\ pc = "fetch" => Len(fetchLog) < Budget(variant)
        /\ \A w \in DOMAIN workers :
               /\ workers[w].attempt <= Budget(variant)
               /\ workers[w].st = "backoff" => workers[w].attempt < Budget(variant)
        /\ error # <<"exhausted", 0>>
        /\ (pc = "failed" /\ failedIn = "fetch") =>
               error = ErrorOf(fetchLog[Len(fetchLog)])

\* C17 witness: index.js met 503 on each of its 4 attempts and the run failed
\* with the status error of the fourth.
C17_Witness ==
    /\ variant = "index"
    /\ pc = "failed"
    /\ failedIn = "fetch"
    /\ fetchLog = <<503, 503, 503, 503>>
    /\ error = <<"http", 503>>

Active == {w \in DOMAIN workers : workers[w].st # "done"}
Holders(k) == {w \in Active : workers[w].idx = k}
InFlight == {w \in DOMAIN workers : workers[w].st = "fetch"}

\* The number of chaptersById.set(id, ...) calls that main makes for key `id`
\* from the pairs mapLimit returns (one call per pair, index.js line 263).
KeyWrites(id) ==
    Cardinality({k \in 1..Len(results) : results[k] # <<>> /\ results[k][1] = id})

\* A step taken while mapLimit runs: at most 2 enrichment requests are in
\* flight; every item up to the cursor was taken by exactly one worker, which
\* either still holds it or has written its result, and no item beyond the
\* cursor was taken; the cursor only moves forward by one, to the item the
\* worker then holds, so no item is taken twice; a written slot holds the pair
\* of the item of the same position and is never written again; and mapLimit
\* returns only when every slot is written.
PoolStep ==
    pc = "enrich" =>
        /\ Cardinality(InFlight) <= 2
        /\ cursor <= Len(ordered)
        /\ Len(results) = Len(ordered)
        /\ \A k \in 1..Len(ordered) :
               IF results[k] # <<>>
               THEN Holders(k) = {} /\ k <= cursor /\ results[k][1] = ordered[k]
               ELSE IF k <= cursor THEN Cardinality(Holders(k)) = 1
               ELSE Holders(k) = {}
        /\ pc' = "enrich" =>
               /\ cursor' \in {cursor, cursor + 1}
               /\ \A w \in DOMAIN workers :
                      workers'[w].idx # workers[w].idx =>
                          (cursor' = cursor + 1 /\ workers'[w].idx = cursor')
               /\ \A k \in 1..Len(ordered) :
                      results[k] # <<>> => results'[k] = results[k]
        /\ pc' = "post" =>
               \A k \in 1..Len(ordered) : results[k] # <<>>

\* The pool's part of C14, which holds under every interleaving.
PoolDiscipline == [][PoolStep]_vars

\* C14: under every interleaving of the workers, at most 2 enrichment fetches
\* are in flight, every delta entry is taken by exactly one worker exactly
\* once, every result slot is written at most once and holds the result of the
\* entry of its position, and, when main fills chaptersById from the pairs,
\* every key of the map is written at most once.
C14_PoolAndMapWrittenOnce ==
    [][/\ PoolStep
       /\ (pc = "enrich" /\ pc' = "post") => \A id \in WorkIds : KeyWrites(id) <= 1]_vars

\* C19: as long as every run has completed without error and the listing has
\* only been prepended to (works are published in the order of their ids and
\* none was withdrawn, so the watermark's work is in every snapshot), the works
\* notified over all runs are the works published after the first watermark,
\* each once, oldest first and without a gap; whenever no delivery is under
\* way they reach up to the stored watermark, and a completed run has notified
\* every work up to the head of its snapshot.
C19_EachNewWorkOnceInOrder ==
    (pristine /\ initWm # NoId) =>
        /\ \A k \in 1..Len(notified) : notified[k] = initWm + k
        /\ pc # "post" => initWm + Len(notified) = lastWorkId
        /\ pc = "post" => (lastWorkId <= initWm + Len(notified)
                           /\ initWm + Len(notified) <= newest)
        /\ pc = "done" => lastWorkId = newest

\* C19 witness: the watermark was initialised at work 1; a later run notified
\* work 2, and the run after it works 3 and 4.
C19_Witness ==
    /\ pristine
    /\ pc = "done"
    /\ initWm = 1
    /\ ordered = <<3, 4>>
    /\ notified = <<2, 3, 4>>
    /\ lastWorkId = 4

\* The watermark of the aborted run is in the snapshot of the run in progress.
AbortedWatermarkListed == FirstAt(Snapshot, aborted[1]) <= Len(Snapshot)

\* Every work of the aborted run's delta is in the snapshot, ahead of the
\* watermark of the aborted run.
AbortedDeltaListed ==
    \A k \in 1..Len(aborted[2]) :
        FirstAt(Snapshot, aborted[2][k]) < FirstAt(Snapshot, aborted[1])

\* The delta of the run in progress, once computed, includes every work of the
\* aborted run's delta.
DeltaIncludesAborted ==
    \A k \in 1..Len(aborted[2]) : \E j \in 1..Len(ordered') : ordered'[j] = aborted[2][k]

\* C20 as stated: after a run that failed between two single messages, the
\* next run, if its snapshot still holds the watermark, computes a delta that
\* includes every work of the failed run.
C20_Original ==
    [][(pc = "fetched" /\ aborted # <<>> /\ AbortedWatermarkListed) =>
           DeltaIncludesAborted]_vars

\* C20: after a run that failed between two single messages, the next run
\* starts from the same watermark; if its snapshot still lists the watermark
\* and, ahead of it, every work of the failed run, its delta includes all of
\* them, and when it completes the works the failed run had delivered are
\* delivered a second time.
C20_AbortedRunIsRedelivered ==
    [][/\ (pc = "fetched" /\ aborted # <<>>) => state = aborted[1]
       /\ (pc = "fetched" /\ aborted # <<>> /\ AbortedWatermarkListed /\ AbortedDeltaListed) =>
              DeltaIncludesAborted
       /\ (pc = "done" /\ aborted # <<>>
             /\ \A k \in 1..Len(aborted[2]) : \E j \in 1..Len(ordered) : ordered[j] = aborted[2][k]) =>
              \A k \in 1..aborted[3] :
                  \E m \in 1..Len(delivered) :
                      \E l \in 1..Len(delivered[m].lines) :
                          delivered[m].lines[l][1] = aborted[2][k]]_vars

\* C20 witness: the run over watermark 1 and delta 2, 3 failed after work 2
\* was delivered; the next run computed the same delta and delivered 2 and 3.
C20_Witness ==
    /\ pc = "done"
    /\ aborted = <<1, <<2, 3>>, 1>>
    /\ ordered = <<2, 3>>
    /\ Len(delivered) = 2
    /\ delivered[1].lines[1][1] = 2

====
